---- MODULE Spec2Model ----
(***************************************************************************)
(* The command-line driver of SGStatic (src/main.cpp): argument parsing,   *)
(* rule loading, input expansion and the per-file analysis loop.           *)
(*                                                                         *)
(* The PE model (pe.h) and the rule scanner (yara_wrapper.h) are external  *)
(* collaborators of the driver: every call the driver makes on them is     *)
(* recorded as an event of the log `out`, and every value they return      *)
(* (is_valid, load_rules, scan_file) is an input chosen by the environment.*)
(***************************************************************************)
EXTENDS Integers, Sequences, FiniteSets, TLC

VARIABLES
    vm,         \* the parsed command line (po::variables_map)
    pc,         \* position in main
    targets,    \* main's vector of files to analyse
    it,         \* main's loop iterator, as a 1-based index into targets
    out,        \* every observable call and output line so far, in order
    exit_code   \* <<main's return value>> once main returned, <<>> before

vars == <<vm, pc, targets, it, out, exit_code>>

----------------------------------------------------------------------------
(* Bounds of the model *)

MaxInputs == 2      \* most paths given on the command line
MaxMatches == 2     \* most matches one scan returns
MaxDumpLen == 3     \* most words and commas in the --dump arguments

----------------------------------------------------------------------------
(* The file system the run sees *)

Paths == {"a", "d", "d/x", "d/s", "d/s/y", "nofile"}

Parent(p) ==
    CASE p = "d/x" -> "d"
      [] p = "d/s" -> "d"
      [] p = "d/s/y" -> "d/s"
      [] OTHER -> ""

exists(p) == p # "nofile"

is_directory(p) == p \in {"d", "d/s"}

\* The orders in which a directory_iterator can enumerate directory d.
Listings(d) ==
    LET kids == {p \in Paths : Parent(p) = d}
    IN  {s \in [1..Cardinality(kids) -> kids] : \A i, j \in DOMAIN s : i # j => s[i] # s[j]}

----------------------------------------------------------------------------
(* Events of the log *)

Ev(op, obj, file, idx, val) ==
    [op |-> op, obj |-> obj, file |-> file, idx |-> idx, val |-> val]

Bool(b) == IF b THEN <<1>> ELSE <<0>>

----------------------------------------------------------------------------
(* parse_args *)

Comma == ","

\* The words a --dump argument is written with. A string is a sequence of
\* words and commas; words written without a comma between them read as one
\* longer word, which is no category name.
DumpWords == {"all", "dos", "tls", "relocations"}

Strings(n) == UNION {[1..k -> DumpWords \cup {Comma}] : k \in 0..n}

\* The values of --dump: one or two arguments of at most n words and commas
\* together.
DumpArguments(n) ==
    {<<s>> : s \in Strings(n)}
    \cup {st \in Strings(n) \X Strings(n) : Len(st[1]) + Len(st[2]) <= n}

NoOptions ==
    [argv_ok |-> FALSE, help |-> FALSE, pe |-> <<>>, recursive |-> FALSE,
     has_dump |-> FALSE, dump |-> <<>>, hashes |-> FALSE, extract |-> FALSE,
     peid |-> FALSE, clamav |-> FALSE]

\* The result of parse_args: TRUE when the run may go on.
\* Variant: the inputs are not checked for existence.
parse_args_trusting(v) ==
    /\ v.argv_ok
    /\ ~(v.help \/ Len(v.pe) = 0)

parse_args(v) ==
    /\ v.argv_ok
    /\ ~(v.help \/ Len(v.pe) = 0)
    /\ \A i \in 1..Len(v.pe) : exists(v.pe[i])

\* What parse_args writes.
parse_args_output(v) ==
    IF ~v.argv_ok THEN <<Ev("cerr_could_not_parse_command_line", "", "", 0, <<>>)>>
    ELSE IF v.help \/ Len(v.pe) = 0 THEN <<Ev("cout_usage", "", "", 0, <<>>)>>
    ELSE LET missing == {i \in 1..Len(v.pe) : ~exists(v.pe[i])}
         IN  IF missing = {} THEN <<>>
             ELSE <<Ev("cerr_not_found", "", v.pe[CHOOSE i \in missing : \A j \in missing : i <= j], 0, <<>>)>>

----------------------------------------------------------------------------
(* get_input_files *)

\* The inner loop over one directory, l being the order of enumeration.
\* Variant: subdirectories are not ignored.
directory_files_unfiltered(l) == l

directory_files(l) == SelectSeq(l, LAMBDA p : ~is_directory(p))

RECURSIVE expand_inputs(_, _)
expand_inputs(input, ls) ==
    IF input = <<>> THEN <<>>
    ELSE LET p == Head(input)
         IN  (IF ~is_directory(p) THEN <<p>> ELSE directory_files(ls[p]))
             \o expand_inputs(Tail(input), ls)

get_input_files(v, ls) ==
    IF v.recursive THEN expand_inputs(v.pe, ls) ELSE v.pe

----------------------------------------------------------------------------
(* The --dump option *)

\* boost::tokenizer with char_separator(","): the maximal runs without a
\* comma, empty runs dropped. cur is the run read so far.
RECURSIVE tokens_from(_, _)
tokens_from(s, cur) ==
    IF s = <<>> THEN (IF cur = <<>> THEN <<>> ELSE <<cur>>)
    ELSE IF Head(s) = Comma
         THEN (IF cur = <<>> THEN <<>> ELSE <<cur>>) \o tokens_from(Tail(s), <<>>)
         ELSE tokens_from(Tail(s), Append(cur, Head(s)))

tokens(s) == tokens_from(s, <<>>)

\* The categories vector main builds from the --dump arguments.
RECURSIVE split_categories(_)
split_categories(dump_args) ==
    IF dump_args = <<>> THEN <<>>
    ELSE tokens(Head(dump_args)) \o split_categories(Tail(dump_args))

\* std::find(categories.begin(), categories.end(), name) != categories.end()
found(categories, name) == \E i \in 1..Len(categories) : categories[i] = <<name>>

dump_if(categories, name, op, f, idx, val) ==
    IF found(categories, "all") \/ found(categories, name)
    THEN <<Ev(op, "pe", f, idx, val)>> ELSE <<>>

\* Variant: tls is tested before relocations.
handle_dump_option_tls_first(categories, compute_hashes, f, idx) ==
       dump_if(categories, "dos", "dump_dos_header", f, idx, <<>>)
    \o dump_if(categories, "pe", "dump_pe_header", f, idx, <<>>)
    \o dump_if(categories, "opt", "dump_image_optional_header", f, idx, <<>>)
    \o dump_if(categories, "sections", "dump_section_table", f, idx, <<>>)
    \o dump_if(categories, "imports", "dump_imports", f, idx, <<>>)
    \o dump_if(categories, "exports", "dump_exports", f, idx, <<>>)
    \o dump_if(categories, "resources", "dump_resources", f, idx, Bool(compute_hashes))
    \o dump_if(categories, "version", "dump_version_info", f, idx, <<>>)
    \o dump_if(categories, "debug", "dump_debug_info", f, idx, <<>>)
    \o dump_if(categories, "tls", "dump_tls", f, idx, <<>>)
    \o dump_if(categories, "relocations", "dump_relocations", f, idx, <<>>)
    \o dump_if(categories, "certificates", "dump_certificates", f, idx, <<>>)

handle_dump_option(categories, compute_hashes, f, idx) ==
       dump_if(categories, "dos", "dump_dos_header", f, idx, <<>>)
    \o dump_if(categories, "pe", "dump_pe_header", f, idx, <<>>)
    \o dump_if(categories, "opt", "dump_image_optional_header", f, idx, <<>>)
    \o dump_if(categories, "sections", "dump_section_table", f, idx, <<>>)
    \o dump_if(categories, "imports", "dump_imports", f, idx, <<>>)
    \o dump_if(categories, "exports", "dump_exports", f, idx, <<>>)
    \o dump_if(categories, "resources", "dump_resources", f, idx, Bool(compute_hashes))
    \o dump_if(categories, "version", "dump_version_info", f, idx, <<>>)
    \o dump_if(categories, "debug", "dump_debug_info", f, idx, <<>>)
    \o dump_if(categories, "relocations", "dump_relocations", f, idx, <<>>)
    \o dump_if(categories, "tls", "dump_tls", f, idx, <<>>)
    \o dump_if(categories, "certificates", "dump_certificates", f, idx, <<>>)

\* if (vm.count("dump")) { ... handle_dump_option ... } else { dump_summary }
dump_or_summary(v, f, idx) ==
    IF v.has_dump
    THEN handle_dump_option(split_categories(v.dump), v.hashes, f, idx)
    ELSE <<Ev("dump_summary", "pe", f, idx, <<>>)>>

----------------------------------------------------------------------------
(* The body of main's loop *)

\* What a scan can return: no match, or MaxMatches matches. A match is
\* named by a number; the metadata field `name` of match k is <<name, k>>.
MatchChoices == {<<>>, [j \in 1..MaxMatches |-> MaxMatches + 1 - j]}

\* is_valid() of the PE model built from path f.
IsValidChoices(f) == IF exists(f) /\ ~is_directory(f) THEN BOOLEAN ELSE {FALSE}

RECURSIVE print_fields(_, _, _, _, _)
print_fields(op, field, f, idx, m) ==
    IF m = <<>> THEN <<>>
    ELSE <<Ev(op, field, f, idx, <<Head(m)>>)>> \o print_fields(op, field, f, idx, Tail(m))

\* The fallback for a file that is no PE.
\* Variant: the file is not reported on standard error.
fallback_without_report(f, idx, magic_ok, m) ==
    (IF exists(f) /\ ~is_directory(f)
     THEN <<Ev("load_rules", "y", "resources/magic.yara", idx, Bool(magic_ok))>>
          \o (IF magic_ok
              THEN <<Ev("scan_file", "y", f, idx, m)>>
                   \o (IF Len(m) > 0
                       THEN <<Ev("cerr", "Detected file type(s):", f, idx, <<>>)>>
                            \o print_fields("cerr_field", "description", f, idx, m)
                       ELSE <<>>)
              ELSE <<>>)
     ELSE <<>>)
    \o <<Ev("cerr_endl", "", f, idx, <<>>)>>

fallback(f, idx, magic_ok, m) ==
    <<Ev("cerr_could_not_parse", "", f, idx, <<>>)>>
    \o (IF exists(f) /\ ~is_directory(f)
        THEN <<Ev("load_rules", "y", "resources/magic.yara", idx, Bool(magic_ok))>>
             \o (IF magic_ok
                 THEN <<Ev("scan_file", "y", f, idx, m)>>
                      \o (IF Len(m) > 0
                          THEN <<Ev("cerr", "Detected file type(s):", f, idx, <<>>)>>
                               \o print_fields("cerr_field", "description", f, idx, m)
                          ELSE <<>>)
                 ELSE <<>>)
        ELSE <<>>)
    \o <<Ev("cerr_endl", "", f, idx, <<>>)>>

\* if (vm.count(option)) { m = y.scan_file(path); if (m.size() > 0) {...} }
\* Variant: only the first match is printed.
scan_first_match_only(requested, y, title, field, f, idx, m) ==
    IF requested
    THEN <<Ev("scan_file", y, f, idx, m)>>
         \o (IF Len(m) > 0
             THEN <<Ev("cout", title, f, idx, <<>>)>>
                  \o print_fields("cout_field", field, f, idx, <<Head(m)>>)
                  \o <<Ev("cout_endl", title, f, idx, <<>>)>>
             ELSE <<>>)
    ELSE <<>>

scan(requested, y, title, field, f, idx, m) ==
    IF requested
    THEN <<Ev("scan_file", y, f, idx, m)>>
         \o (IF Len(m) > 0
             THEN <<Ev("cout", title, f, idx, <<>>)>>
                  \o print_fields("cout_field", field, f, idx, m)
                  \o <<Ev("cout_endl", title, f, idx, <<>>)>>
             ELSE <<>>)
    ELSE <<>>

\* Variant: the hash dump comes before the extraction.
extract_and_hashes_swapped(v, f, idx) ==
       (IF v.hashes THEN <<Ev("dump_hashes", "pe", f, idx, <<>>)>> ELSE <<>>)
    \o (IF v.extract THEN <<Ev("extract_resources", "pe", f, idx, <<>>)>> ELSE <<>>)

extract_and_hashes(v, f, idx) ==
       (IF v.extract THEN <<Ev("extract_resources", "pe", f, idx, <<>>)>> ELSE <<>>)
    \o (IF v.hashes THEN <<Ev("dump_hashes", "pe", f, idx, <<>>)>> ELSE <<>>)

\* if (it != targets.end() - 1) { separator }
separator(f, idx, n) ==
    IF idx # n THEN <<Ev("separator", "", f, idx, <<>>)>> ELSE <<>>

valid_branch(v, f, idx, n, mp, mc) ==
       dump_or_summary(v, f, idx)
    \o extract_and_hashes(v, f, idx)
    \o scan(v.peid, "y_peid", "PEiD Signature:", "packer_name", f, idx, mp)
    \o scan(v.clamav, "y_clamav", "ClamAV Signature:", "signature", f, idx, mc)
    \o separator(f, idx, n)

\* Variant: the fallback runs for valid files too.
iteration_fallback_always(v, f, idx, n, valid, magic_ok, mm, mp, mc) ==
    <<Ev("is_valid", "pe", f, idx, Bool(valid))>>
    \o (IF ~valid THEN fallback(f, idx, magic_ok, mm)
        ELSE fallback(f, idx, magic_ok, mm) \o valid_branch(v, f, idx, n, mp, mc))

iteration(v, f, idx, n, valid, magic_ok, mm, mp, mc) ==
    <<Ev("is_valid", "pe", f, idx, Bool(valid))>>
    \o (IF ~valid THEN fallback(f, idx, magic_ok, mm)
        ELSE valid_branch(v, f, idx, n, mp, mc))

----------------------------------------------------------------------------
(* main *)

\* The value main returns from each of its return statements.
\* Variant: a failed load returns 0.
return_after_load_failure_zero(parsed, loaded) ==
    IF ~parsed THEN -1 ELSE 0

return_value(parsed, loaded) ==
    IF ~parsed THEN -1 ELSE IF ~loaded THEN 1 ELSE 0

\* Whether main goes on after the load of a rule bundle.
\* Variant: a failed load does not stop main.
goes_on_ignoring_failure(requested, ok) == TRUE

goes_on(requested, ok) == ~requested \/ ok

Options(dumps) ==
    {NoOptions} \cup
    {v \in [argv_ok : {TRUE}, help : BOOLEAN,
            pe : UNION {[1..k -> {"a", "d", "nofile"}] : k \in 0..MaxInputs},
            recursive : BOOLEAN, has_dump : BOOLEAN, dump : dumps,
            hashes : BOOLEAN, extract : BOOLEAN, peid : BOOLEAN, clamav : BOOLEAN] :
        v.has_dump <=> v.dump # <<>>}

\* One regular file, and every way of writing --dump.
DumpOptions ==
    {v \in [argv_ok : {TRUE}, help : {FALSE}, pe : {<<"a">>},
            recursive : {FALSE}, has_dump : BOOLEAN,
            dump : {<<>>} \cup DumpArguments(MaxDumpLen),
            hashes : BOOLEAN, extract : {FALSE}, peid : {FALSE}, clamav : {FALSE}] :
        v.has_dump <=> v.dump # <<>>}

InitWith(options) ==
    /\ vm \in options
    /\ pc = "parse_args"
    /\ targets = <<>>
    /\ it = 1
    /\ out = <<>>
    /\ exit_code = <<>>

\* Every command line over the paths a, d and nofile, with no --dump or one of
\* two ways of writing it (reversed order, repetition, empty tokens, several
\* arguments, an unknown word, all).
Init ==
    InitWith(Options({<<>>,
                      <<<<"tls", Comma, "relocations">>, <<"dos", Comma, Comma, "dos">>>>,
                      <<<<"bogus", Comma, "all">>>>}))

\* One input, and every way of writing --dump within the bound.
InitDump == InitWith(DumpOptions)

ParseArgs ==
    /\ pc = "parse_args"
    /\ out' = <<Ev("cout_banner", "", "", 0, <<>>)>> \o parse_args_output(vm)
    /\ IF parse_args(vm)
       THEN pc' = "load_peid" /\ UNCHANGED exit_code
       ELSE pc' = "done" /\ exit_code' = <<return_value(FALSE, TRUE)>>
    /\ UNCHANGED <<vm, targets, it>>

LoadRules(here, next, requested, y, bundle, message) ==
    /\ pc = here
    /\ \E ok \in BOOLEAN :
          /\ out' = out
                \o (IF requested
                    THEN <<Ev("load_rules", y, bundle, 0, Bool(ok))>>
                         \o (IF ok THEN <<>> ELSE <<Ev("cerr_could_not_load", message, "", 0, <<>>)>>)
                    ELSE <<>>)
          /\ IF goes_on(requested, ok)
             THEN pc' = next /\ UNCHANGED exit_code
             ELSE pc' = "done" /\ exit_code' = <<return_value(TRUE, FALSE)>>
    /\ UNCHANGED <<vm, targets, it>>

LoadPeid ==
    LoadRules("load_peid", "load_clamav", vm.peid, "y_peid", "resources/peid.yara", "PEiD")

LoadClamav ==
    LoadRules("load_clamav", "get_input_files", vm.clamav, "y_clamav", "resources/clamav.yara", "ClamAV")

GetInputFiles ==
    /\ pc = "get_input_files"
    /\ \E ls \in [{"d", "d/s"} -> UNION {Listings(d) : d \in {"d", "d/s"}}] :
          /\ \A d \in {"d", "d/s"} : ls[d] \in Listings(d)
          /\ targets' = get_input_files(vm, ls)
    /\ pc' = "analysis"
    /\ it' = 1
    /\ UNCHANGED <<vm, out, exit_code>>

AnalyseFile ==
    /\ pc = "analysis"
    /\ it <= Len(targets)
    /\ \E valid \in IsValidChoices(targets[it]), magic_ok \in BOOLEAN,
          mm \in MatchChoices, mp \in MatchChoices, mc \in MatchChoices :
          out' = out \o iteration(vm, targets[it], it, Len(targets), valid, magic_ok, mm, mp, mc)
    /\ it' = it + 1
    /\ UNCHANGED <<vm, pc, targets, exit_code>>

Return ==
    /\ pc = "analysis"
    /\ it > Len(targets)
    /\ pc' = "done"
    /\ exit_code' = <<return_value(TRUE, TRUE)>>
    /\ UNCHANGED <<vm, targets, it, out>>

Next == ParseArgs \/ LoadPeid \/ LoadClamav \/ GetInputFiles \/ AnalyseFile \/ Return

Spec == Init /\ [][Next]_vars

SpecDump == InitDump /\ [][Next]_vars

----------------------------------------------------------------------------
(* Reading the log *)

Pos == 1..Len(out)

Done == pc = "done"

\* The iterations of main's loop that have completed.
Analysed == 1..(it - 1)

IsValidAt(k) == \E i \in Pos : out[i].op = "is_valid" /\ out[i].idx = k /\ out[i].val = <<1>>

IsInvalidAt(k) == \E i \in Pos : out[i].op = "is_valid" /\ out[i].idx = k /\ out[i].val = <<0>>

LoadFailed(i) == out[i].op = "load_rules" /\ out[i].val = <<0>>

Signature == {"y_peid", "y_clamav"}

DumpAccessors ==
    {"dump_dos_header", "dump_pe_header", "dump_image_optional_header",
     "dump_section_table", "dump_imports", "dump_exports", "dump_resources",
     "dump_version_info", "dump_debug_info", "dump_relocations", "dump_tls",
     "dump_certificates"}

DumpOrSummary == DumpAccessors \cup {"dump_summary"}

\* What the driver does with a PE that parsed.
ValidOnly == DumpOrSummary \cup {"extract_resources", "dump_hashes"}

----------------------------------------------------------------------------
(* C1 *)

ArgumentsAccepted ==
    /\ vm.argv_ok
    /\ ~vm.help
    /\ vm.pe # <<>>
    /\ \A p \in Paths : (\E i \in DOMAIN vm.pe : vm.pe[i] = p) => p # "nofile"

SignatureLoadFailed == \E i \in Pos : LoadFailed(i) /\ out[i].obj \in Signature

\* C1: main returns 0 when the arguments are accepted and no load of the
\* requested rule sets (PEiD, ClamAV) fails, however many files are no PE;
\* 1 when a signature-rule load fails; -1 when the command line cannot be
\* parsed or names no input file.
C1_ExitCode ==
    Done =>
        /\ (ArgumentsAccepted /\ ~SignatureLoadFailed => exit_code = <<0>>)
        /\ (SignatureLoadFailed => exit_code = <<1>>)
        /\ (~vm.argv_ok \/ vm.pe = <<>> => exit_code = <<-1>>)

C1_Witness ==
    /\ Done
    /\ exit_code = <<0>>
    /\ vm.peid /\ vm.clamav
    /\ Len(targets) = 2
    /\ IsInvalidAt(1) /\ IsInvalidAt(2)

----------------------------------------------------------------------------
(* C2 *)

\* C2 as claimed: whenever a load_rules call on any bundle fails, the run
\* ends with exit code 1 and no file is analysed after the failure.
C2_EveryLoadFailureFatal ==
    \A i \in Pos : LoadFailed(i) =>
        /\ Done => exit_code = <<1>>
        /\ \A j \in Pos : j > i => out[j].op # "is_valid"

\* C2 amended: a failed load of resources/peid.yara or resources/clamav.yara
\* ends the run with exit code 1 and no file is analysed after it; a failed
\* load of resources/magic.yara only skips the fallback scan of that file,
\* and the run goes on to its usual exit code 0.
C2_SignatureLoadFailureFatal ==
    \A i \in Pos : LoadFailed(i) =>
        IF out[i].obj \in Signature
        THEN /\ Done
             /\ exit_code = <<1>>
             /\ out[i].file \in {"resources/peid.yara", "resources/clamav.yara"}
             /\ \A j \in Pos : j > i => out[j].op = "cerr_could_not_load"
             /\ \A j \in Pos : out[j].op # "is_valid"
        ELSE /\ out[i].file = "resources/magic.yara"
             /\ \A j \in Pos : ~(out[j].op = "scan_file" /\ out[j].idx = out[i].idx)
             /\ Done => exit_code = <<0>>

C2_Witness ==
    /\ Done
    /\ vm.peid /\ vm.clamav
    /\ \E i \in Pos : LoadFailed(i) /\ out[i].obj = "y_clamav"
    /\ \E i \in Pos : out[i].op = "load_rules" /\ out[i].obj = "y_peid" /\ out[i].val = <<1>>

----------------------------------------------------------------------------
(* C3 *)

Reported(k) ==
    \E i \in Pos : out[i].op = "cerr_could_not_parse" /\ out[i].idx = k /\ out[i].file = targets[k]

MagicScanned(k) ==
    \E i \in Pos : /\ out[i].op = "scan_file" /\ out[i].obj = "y"
                   /\ out[i].idx = k /\ out[i].file = targets[k]

MagicLoaded(k) ==
    \E i \in Pos : /\ out[i].op = "load_rules" /\ out[i].obj = "y"
                   /\ out[i].idx = k /\ out[i].val = <<1>>

NothingElseDone(k) ==
    \A i \in Pos : out[i].idx = k =>
        /\ out[i].op \notin ValidOnly
        /\ out[i].obj \notin Signature

\* The run did not end with file k: the loop is still running, or it ended
\* at the end of the list, and every file up to the iterator was opened.
GoesOnAfter(k) ==
    /\ pc = "analysis" \/ (Done /\ exit_code = <<0>> /\ it = Len(targets) + 1)
    /\ \A n \in Analysed : IsValidAt(n) \/ IsInvalidAt(n)

\* C3 as claimed: every file that is no PE is reported on standard error,
\* scanned with the magic rules, given none of the operations of a valid
\* file, and followed by the next input.
C3_InvalidFileAlwaysScanned ==
    \A k \in Analysed : IsInvalidAt(k) =>
        /\ Reported(k)
        /\ MagicScanned(k)
        /\ NothingElseDone(k)
        /\ GoesOnAfter(k)

\* C3 amended: every file that is no PE is reported on standard error; the
\* magic scan runs over it exactly when it is not a directory and
\* resources/magic.yara loads; none of the operations of a valid file is
\* performed on it; and the run goes on to the next input.
C3_InvalidFileFallback ==
    \A k \in Analysed : IsInvalidAt(k) =>
        /\ Reported(k)
        /\ MagicScanned(k) <=> (targets[k] \notin {"d", "d/s"} /\ MagicLoaded(k))
        /\ MagicLoaded(k) => targets[k] \notin {"d", "d/s"}
        /\ NothingElseDone(k)
        /\ GoesOnAfter(k)

C3_Witness ==
    /\ Done
    /\ Len(targets) = 2
    /\ IsInvalidAt(1) /\ MagicScanned(1)
    /\ IsValidAt(2)
    /\ \E i \in Pos : out[i].idx = 2 /\ out[i].op = "dump_summary"

----------------------------------------------------------------------------
(* C4 *)

\* C4: the magic rule set is loaded and scanned only in the iteration of a
\* file whose PE model is not valid.
C4_MagicOnlyWhenInvalid ==
    LET valid == {k \in Analysed : IsValidAt(k)}
        invalid == {k \in Analysed : IsInvalidAt(k)}
    IN  \A i \in Pos :
            (out[i].obj = "y" \/ out[i].file = "resources/magic.yara" \/ out[i].obj = "description")
                => out[i].idx \in invalid \ valid

C4_Witness ==
    /\ Len(targets) = 2
    /\ IsValidAt(1) /\ IsInvalidAt(2) /\ MagicScanned(2)
    /\ \A i \in Pos : out[i].idx = 1 => out[i].obj # "y"

----------------------------------------------------------------------------
(* C5 *)

ImmediateFiles(d) == {p \in Paths : Parent(p) = d /\ p \notin {"d", "d/s"}}

\* tg is input with every directory replaced by its immediate children that
\* are no directories, in some order.
RECURSIVE Expands(_, _)
Expands(input, tg) ==
    IF input = <<>> THEN tg = <<>>
    ELSE LET p == Head(input)
             n == IF p \in {"d", "d/s"} THEN Cardinality(ImmediateFiles(p)) ELSE 1
         IN  /\ Len(tg) >= n
             /\ {tg[i] : i \in 1..n} = (IF p \in {"d", "d/s"} THEN ImmediateFiles(p) ELSE {p})
             /\ Expands(Tail(input), SubSeq(tg, n + 1, Len(tg)))

TargetsComputed == pc = "analysis" \/ (Done /\ exit_code = <<0>>)

\* C5: with --recursive the files analysed are the inputs in order, each
\* directory replaced by exactly its immediate children that are not
\* directories; without it they are the inputs unchanged.
C5_InputFiles ==
    TargetsComputed =>
        IF vm.recursive THEN Expands(vm.pe, targets) ELSE targets = vm.pe

C5_Witness ==
    /\ TargetsComputed
    /\ vm.recursive
    /\ vm.pe = <<"d", "a">>
    /\ targets = <<"d/x", "a">>

----------------------------------------------------------------------------
(* C6 *)

ClaimedOrder ==
    <<"dos", "pe", "opt", "sections", "imports", "exports", "resources",
      "version", "debug", "relocations", "tls", "certificates">>

AccessorOf(c) ==
    CASE c = "dos" -> "dump_dos_header"
      [] c = "pe" -> "dump_pe_header"
      [] c = "opt" -> "dump_image_optional_header"
      [] c = "sections" -> "dump_section_table"
      [] c = "imports" -> "dump_imports"
      [] c = "exports" -> "dump_exports"
      [] c = "resources" -> "dump_resources"
      [] c = "version" -> "dump_version_info"
      [] c = "debug" -> "dump_debug_info"
      [] c = "relocations" -> "dump_relocations"
      [] c = "tls" -> "dump_tls"
      [] c = "certificates" -> "dump_certificates"

\* Word c stands alone between commas somewhere in the --dump arguments.
Named(c) ==
    \E a \in DOMAIN vm.dump : \E i \in DOMAIN vm.dump[a] :
        LET s == vm.dump[a]
        IN  /\ s[i] = c
            /\ i = 1 \/ s[i - 1] = Comma
            /\ i = Len(s) \/ s[i + 1] = Comma

Wanted(c) == Named("all") \/ Named(c)

\* The dump accessors and summaries called in iteration k, in order.
DumpCalls(k) ==
    LET calls == SelectSeq(out, LAMBDA e : e.idx = k /\ e.op \in DumpOrSummary)
    IN  [i \in DOMAIN calls |-> calls[i].op]

ExpectedCalls ==
    LET wanted == SelectSeq(ClaimedOrder, LAMBDA c : Wanted(c))
    IN  [i \in DOMAIN wanted |-> AccessorOf(wanted[i])]

\* C6: for a valid file, without --dump exactly the summary is printed; with
\* --dump no summary is printed and the accessors called are those of the
\* categories named (all twelve for `all`), once each, in the fixed order.
C6_DumpOrSummary ==
    \A k \in Analysed : IsValidAt(k) =>
        DumpCalls(k) = (IF vm.has_dump THEN ExpectedCalls ELSE <<"dump_summary">>)

C6_Witness ==
    /\ vm.dump = <<<<"tls">>, <<"relocations", Comma>>>>
    /\ IsValidAt(1)
    /\ DumpCalls(1) = <<"dump_relocations", "dump_tls">>

----------------------------------------------------------------------------
(* C7 *)

\* C7 as claimed: once the run is over, between the output of any two
\* consecutive files of the list there is a separator line, and there is
\* none after the output of the last file.
C7_SeparatorBetweenFiles ==
    (Done /\ exit_code = <<0>>) =>
        /\ \A k \in 1..(Len(targets) - 1) :
              \E i \in Pos :
                  /\ out[i].op = "separator"
                  /\ \A j \in Pos : (out[j].idx = k /\ out[j].op # "separator") => j < i
                  /\ \A j \in Pos : out[j].idx = k + 1 => i < j
        /\ \A i \in Pos : out[i].op = "separator" =>
              \E j \in Pos : j > i /\ out[j].idx = Len(targets)

----------------------------------------------------------------------------
(* C8 *)

Requested(y) == IF y = "y_peid" THEN vm.peid ELSE vm.clamav

TitleOf(y) == IF y = "y_peid" THEN "PEiD Signature:" ELSE "ClamAV Signature:"

FieldOf(y) == IF y = "y_peid" THEN "packer_name" ELSE "signature"

Loads(y) == {i \in Pos : out[i].op = "load_rules" /\ out[i].obj = y}

Scans(y, k) == {i \in Pos : out[i].op = "scan_file" /\ out[i].obj = y /\ out[i].idx = k}

\* The scan at position i is followed by its report: nothing of the scanner
\* when there is no match, else the title, one line per match in the order
\* returned, and the closing line.
ReportFollows(y, i) ==
    LET m == out[i].val
    IN  IF m = <<>>
        THEN \A j \in Pos : (j > i /\ out[j].idx = out[i].idx) => out[j].obj \notin {TitleOf(y), FieldOf(y)}
        ELSE /\ i + Len(m) + 2 <= Len(out)
             /\ out[i + 1].op = "cout" /\ out[i + 1].obj = TitleOf(y)
             /\ \A n \in 1..Len(m) :
                   /\ out[i + 1 + n].op = "cout_field"
                   /\ out[i + 1 + n].obj = FieldOf(y)
                   /\ out[i + 1 + n].val = <<m[n]>>
             /\ out[i + Len(m) + 2].op = "cout_endl"
             /\ \A j \in Pos : (j > i + Len(m) + 2 /\ out[j].idx = out[i].idx)
                                  => out[j].obj \notin {TitleOf(y), FieldOf(y)}

\* C8: each of y_peid and y_clamav loads its rules at most once, before any
\* file is analysed and only when its option is given; it scans every valid
\* file exactly once (and no other); every match of a scan is printed in the
\* order returned, under a title printed only when there is a match.
C8_Scanners ==
    \A y \in Signature :
        /\ Cardinality(Loads(y)) <= 1
        /\ \A i \in Loads(y) :
              /\ Requested(y)
              /\ \A j \in Pos : out[j].op = "is_valid" => i < j
        /\ \A k \in Analysed :
              /\ Cardinality(Scans(y, k)) = (IF Requested(y) /\ IsValidAt(k) THEN 1 ELSE 0)
              /\ \A i \in Scans(y, k) :
                    /\ out[i].file = targets[k]
                    /\ \E j \in Loads(y) : j < i /\ out[j].val = <<1>>
                    /\ ReportFollows(y, i)
        /\ \A i \in Pos : (out[i].op = "cout" /\ out[i].obj = TitleOf(y)) =>
              /\ i > 1
              /\ out[i - 1].op = "scan_file" /\ out[i - 1].obj = y /\ out[i - 1].val # <<>>
        /\ \A i \in Pos : (out[i].op = "cout_field" /\ out[i].obj = FieldOf(y)) =>
              \E j \in Scans(y, out[i].idx) :
                  j < i /\ i - j - 1 \in 1..Len(out[j].val)

C8_Witness ==
    /\ Done
    /\ Len(targets) = 2
    /\ IsValidAt(1) /\ IsValidAt(2)
    /\ \E i \in Scans("y_peid", 1) : Len(out[i].val) = MaxMatches
    /\ \E i \in Scans("y_peid", 2) : out[i].val = <<>>
    /\ \E i \in Scans("y_clamav", 2) : Len(out[i].val) = MaxMatches

----------------------------------------------------------------------------
(* C9 *)

\* The place of an event in the order of operations on one file.
Phase(e) ==
    CASE e.op = "is_valid" -> 0
      [] e.op \in DumpOrSummary -> 1
      [] e.op = "extract_resources" -> 2
      [] e.op = "dump_hashes" -> 3
      [] e.obj \in {"y_peid", "PEiD Signature:", "packer_name"} -> 4
      [] e.obj \in {"y_clamav", "ClamAV Signature:", "signature"} -> 5
      [] e.op = "separator" -> 6
      [] OTHER -> 7

Times(op, k) == Cardinality({i \in Pos : out[i].op = op /\ out[i].idx = k})

\* (Events of one file are contiguous and in phase order exactly when every
\* two neighbours are in order.)
\* C9: a valid file gets dump-or-summary, then extraction, then the hash
\* dump, then the PEiD scan, then the ClamAV scan, each enabled one once and
\* no other; the files are taken once each in list order, one file's
\* operations all before the next file's.
C9_OperationOrder ==
    /\ LET valid == {k \in Analysed : IsValidAt(k)}
       IN  \A i \in 1..(Len(out) - 1) :
              /\ out[i].idx <= out[i + 1].idx
              /\ (out[i].idx = out[i + 1].idx /\ out[i].idx \in valid) =>
                    Phase(out[i]) <= Phase(out[i + 1])
    /\ \A k \in Analysed :
          /\ Times("is_valid", k) = 1
          /\ \A i \in Pos : (out[i].idx = k /\ out[i].op # "load_rules") => out[i].file = targets[k]
    /\ \A i \in Pos : out[i].idx \in Analysed \cup {0}
    /\ \A k \in Analysed : IsValidAt(k) =>
          /\ \A i \in Pos : out[i].idx = k => Phase(out[i]) < 7
          /\ LET calls == DumpCalls(k)
             IN  /\ Cardinality({calls[i] : i \in DOMAIN calls}) = Len(calls)
                 /\ ~vm.has_dump => calls = <<"dump_summary">>
          /\ Times("extract_resources", k) = (IF vm.extract THEN 1 ELSE 0)
          /\ Times("dump_hashes", k) = (IF vm.hashes THEN 1 ELSE 0)
          /\ Cardinality(Scans("y_peid", k)) = (IF vm.peid THEN 1 ELSE 0)
          /\ Cardinality(Scans("y_clamav", k)) = (IF vm.clamav THEN 1 ELSE 0)
    /\ (Done /\ exit_code = <<0>>) => it = Len(targets) + 1

C9_Witness ==
    /\ Done
    /\ vm.has_dump /\ vm.extract /\ vm.hashes /\ vm.peid /\ vm.clamav
    /\ Len(targets) = 2
    /\ IsValidAt(1) /\ IsValidAt(2)
    /\ Times("dump_tls", 1) = 1 /\ Times("extract_resources", 2) = 1
    /\ \E i \in Scans("y_clamav", 2) : out[i].val # <<>>

----------------------------------------------------------------------------
(* C10 *)

SomeInputMissing == \E i \in DOMAIN vm.pe : vm.pe[i] = "nofile"

SomeInputPresent == \E i \in DOMAIN vm.pe : vm.pe[i] # "nofile"

\* C10: when an input path does not exist, or --help is given (with inputs
\* that all exist), parse_args fails: no rule set is loaded, no file is
\* analysed, the existing ones included, and the run ends with -1.
C10_AllOrNothing ==
    ((SomeInputMissing \/ (vm.help /\ vm.pe # <<>> /\ ~SomeInputMissing)) /\ pc # "parse_args") =>
        /\ Done
        /\ exit_code = <<-1>>
        /\ targets = <<>>
        /\ \A i \in Pos :
              /\ out[i].idx = 0
              /\ out[i].op \in {"cout_banner", "cout_usage", "cerr_not_found"}

C10_Witness ==
    /\ Done
    /\ ~vm.help
    /\ vm.peid
    /\ SomeInputMissing /\ SomeInputPresent
    /\ \E i \in Pos : out[i].op = "cerr_not_found"

====
